---- MODULE Spec2Model ----
(***************************************************************************)
(* Verification model of the PinBall repository: the planned Camera class  *)
(* (docs/plan.md, section 2.1), its configuration constants, the           *)
(* camera-utils math helpers, the asset generators and the planned game    *)
(* loop with its input manager (docs/plan.md, sections 2.4 and 2.5).       *)
(*                                                                         *)
(* JavaScript numbers are modelled as exact rationals <<n, d>> in lowest   *)
(* terms with d > 0, so that 0.08, 1/60, 43.2 and the like are exact.      *)
(* Floating-point rounding is abstracted away; a division by zero yields   *)
(* the marker NonFinite (Infinity or NaN in the program).                  *)
(***************************************************************************)
EXTENDS Integers, Sequences, FiniteSets, TLC

----------------------------------------------------------------------------
(* Numbers.  Every operation is a function, so that its arguments are       *)
(* evaluated once, whatever the size of the expression they come from.     *)

Pairs == Int \X Int

\* greatest common divisor of two naturals (Euclid)
gcd[p \in Nat \X Nat] == IF p[2] = 0 THEN p[1] ELSE gcd[<<p[2], p[1] % p[2]>>]
GCD(a, b) == gcd[<<a, b>>]

iabs[i \in Int] == IF i < 0 THEN -i ELSE i
IAbs(i) == iabs[i]

\* the product of two integers
times[p \in Pairs] == p[1] * p[2]
Times(i, j) == times[<<i, j>>]

\* n/d divided through by g, with a positive denominator
reduce[t \in Int \X Int \X Nat] ==
  IF t[2] < 0 THEN <<(-t[1]) \div t[3], (-t[2]) \div t[3]>>
  ELSE <<t[1] \div t[3], t[2] \div t[3]>>

\* the number n/d, d # 0, in lowest terms
ratio[p \in Pairs] == reduce[<<p[1], p[2], GCD(IAbs(p[1]), IAbs(p[2]))>>]
R(n, d) == ratio[<<n, d>>]

Num(i) == <<i, 1>>
Zero == <<0, 1>>
One == <<1, 1>>
NonFinite == <<0, 0>>

\* a + b, over the common denominator l
addOver[t \in Pairs \X Pairs \X Nat] ==
  R(Times(t[1][1], t[3] \div t[1][2]) + Times(t[2][1], t[3] \div t[2][2]), t[3])
add[p \in Pairs \X Pairs] ==
  addOver[<<p[1], p[2], Times(p[1][2] \div GCD(p[1][2], p[2][2]), p[2][2])>>]
Add(a, b) == add[<<a, b>>]

\* -a
neg[a \in Pairs] == <<-a[1], a[2]>>
Neg(a) == neg[a]

\* a - b
Sub(a, b) == add[<<a, neg[b]>>]

\* a * b, cancelling g1 = gcd(a[1], b[2]) and g2 = gcd(b[1], a[2]) first
mulBy[t \in Pairs \X Pairs \X Nat \X Nat] ==
  <<Times(t[1][1] \div t[3], t[2][1] \div t[4]),
    Times(t[1][2] \div t[4], t[2][2] \div t[3])>>
mul[p \in Pairs \X Pairs] ==
  mulBy[<<p[1], p[2], GCD(IAbs(p[1][1]), p[2][2]), GCD(IAbs(p[2][1]), p[1][2])>>]
Mul(a, b) == mul[<<a, b>>]

\* a / b; a division by zero gives Infinity or NaN
div[p \in Pairs \X Pairs] ==
  IF p[2][1] = 0 THEN NonFinite
  ELSE mul[<<p[1], R(p[2][2], p[2][1])>>]
Div(a, b) == div[<<a, b>>]

\* a <= b, a < b
leqBy[t \in Pairs \X Pairs \X Nat] ==
  Times(t[1][1], t[2][2] \div t[3]) <= Times(t[2][1], t[1][2] \div t[3])
leq[p \in Pairs \X Pairs] == leqBy[<<p[1], p[2], GCD(p[1][2], p[2][2])>>]
Leq(a, b) == leq[<<a, b>>]
less[p \in Pairs \X Pairs] == p[1] # p[2] /\ leq[p]
Less(a, b) == less[<<a, b>>]

\* Math.max(a, b), Math.min(a, b)
maxOf[p \in Pairs \X Pairs] == IF leq[p] THEN p[2] ELSE p[1]
Max(a, b) == maxOf[<<a, b>>]
minOf[p \in Pairs \X Pairs] == IF leq[p] THEN p[1] ELSE p[2]
Min(a, b) == minOf[<<a, b>>]

\* lo <= v <= hi
InRange(v, lo, hi) == Leq(lo, v) /\ Leq(v, hi)

\* |a| and the sign of a
Abs(a) == <<IAbs(a[1]), a[2]>>
sign[a \in Pairs] == IF a[1] > 0 THEN 1 ELSE IF a[1] < 0 THEN -1 ELSE 0
Sign(a) == sign[a]

----------------------------------------------------------------------------
(* utils/constants.ts *)

VIEWPORT_WIDTH == 540
VIEWPORT_HEIGHT == 960
WORLD_WIDTH == 1620
WORLD_HEIGHT == 2880

CAMERA_FOLLOW_SPEED == R(8, 100)
CAMERA_LOOK_AHEAD == R(5, 10)
CAMERA_MIN_ZOOM == R(6, 10)
CAMERA_MAX_ZOOM == R(12, 10)

----------------------------------------------------------------------------
(* utils/camera-utils.ts *)

lerp(a, b, t) == Add(a, Mul(Sub(b, a), t))

\* a clamp that applies the lower bound first
clampMinFirst(value, min, max) == Min(max, Max(min, value))

clamp(value, min, max) == Max(min, Min(max, value))

\* the interpolation parameter measured from the upper edge
smoothStepTFromUpper(edge0, edge1, x) ==
  IF edge1 = edge0
  THEN IF x = edge0 THEN NonFinite ELSE IF Less(edge0, x) THEN One ELSE Zero
  ELSE clamp(Div(Sub(edge1, x), Sub(edge1, edge0)), Zero, One)

\* smoothStep: const t.  With edge0 = edge1 the quotient is NaN for
\* x = edge0 and plus or minus Infinity otherwise, which clamp takes to 1 or 0.
smoothStepT(edge0, edge1, x) ==
  IF edge1 = edge0
  THEN IF x = edge0 THEN NonFinite ELSE IF Less(edge0, x) THEN One ELSE Zero
  ELSE clamp(Div(Sub(x, edge0), Sub(edge1, edge0)), Zero, One)

\* the polynomial without the factor 2
smoothStepNoTwo(edge0, edge1, x) ==
  LET t == smoothStepT(edge0, edge1, x)
  IN  IF t = NonFinite THEN NonFinite
      ELSE Mul(Mul(t, t), Sub(Num(3), t))

smoothStep(edge0, edge1, x) ==
  LET t == smoothStepT(edge0, edge1, x)
  IN  IF t = NonFinite THEN NonFinite
      ELSE Mul(Mul(t, t), Sub(Num(3), Mul(Num(2), t)))

worldToScreen(worldX, worldY, cameraX, cameraY, zoom) ==
  [x |-> Mul(Sub(worldX, cameraX), zoom),
   y |-> Mul(Sub(worldY, cameraY), zoom)]

\* the inverse transform scaling in the wrong direction
screenToWorldScaled(screenX, screenY, cameraX, cameraY, zoom) ==
  [x |-> Add(Mul(screenX, zoom), cameraX),
   y |-> Add(Mul(screenY, zoom), cameraY)]

screenToWorld(screenX, screenY, cameraX, cameraY, zoom) ==
  IF zoom = Zero
  THEN [x |-> NonFinite, y |-> NonFinite]
  ELSE [x |-> Add(Div(screenX, zoom), cameraX),
        y |-> Add(Div(screenY, zoom), cameraY)]

----------------------------------------------------------------------------
(* core/Camera.ts *)

\* the constructor's default configuration
DefaultConfig ==
  [viewportWidth  |-> Num(VIEWPORT_WIDTH),
   viewportHeight |-> Num(VIEWPORT_HEIGHT),
   worldWidth     |-> Num(WORLD_WIDTH),
   worldHeight    |-> Num(WORLD_HEIGHT),
   followSpeed    |-> CAMERA_FOLLOW_SPEED,
   lookAhead      |-> CAMERA_LOOK_AHEAD,
   minZoom        |-> CAMERA_MIN_ZOOM,
   maxZoom        |-> CAMERA_MAX_ZOOM]

\* new Camera({ followSpeed: 1 }): the instant-snap end of followSpeed's range
SnapConfig == [DefaultConfig EXCEPT !.followSpeed = One]

Configs == {DefaultConfig}

\* new Camera({ worldHeight: 800 }): a world shorter than the viewport
ShortWorldConfig == [DefaultConfig EXCEPT !.worldHeight = Num(800)]

\* the only physics body of the table
Bodies == {"ball"}
NoBody == "null"

\* snapshots of a body (position, velocity) the physics engine can produce:
\* at the centre of the world moving right, and near the bottom-left corner
\* moving down and left (the desired position is out of bounds on both axes)
Vec(x, y) == [x |-> x, y |-> y]
BodyStates ==
  { [position |-> Vec(Num(810), Num(1440)), velocity |-> Vec(Num(100), Zero)],
    [position |-> Vec(Num(50), Num(2800)), velocity |-> Vec(Num(-100), Num(200))] }
InitialBody == [position |-> Vec(Num(810), Num(1440)), velocity |-> Vec(Num(100), Zero)]

\* arguments of setPosition: inside the world bounds, and outside on both axes
ManualPositions == { Vec(Num(540), Num(960)), Vec(Num(-50), Num(3000)) }

\* arguments of setZoom: below minZoom, inside the range, above maxZoom
ZoomLevels == { R(3, 10), One, Num(2) }

\* frame times in seconds: none, one 60 Hz frame, a stalled frame
DeltaTimes == { Zero, R(1, 60), R(25, 48) }

\* number of update calls explored
MaxUpdates == 2

\* frame times of the render loop at 60 and 30 frames per second
FrameTimes == { R(1, 60), R(1, 30) }

\* arguments of the free coordinate transforms
Points == { Vec(Zero, Zero), Vec(Num(810), Num(1440)), Vec(R(-7, 2), R(1, 3)),
            Vec(Num(1620), R(5, 4)) }
CameraPositions == { Vec(Zero, Zero), Vec(R(216, 5), R(384, 5)), Vec(Num(1080), Num(-3)) }
Zooms == { CAMERA_MIN_ZOOM, One, CAMERA_MAX_ZOOM, R(-1, 2), Zero }

VARIABLES
  config,        \* CameraConfig, fixed by the constructor
  target,        \* followed Matter.Body or null
  currentX, currentY, currentZoom,
  targetX, targetY, targetZoom,
  bodies,        \* position and velocity of each physics body
  lastUpdate,    \* <<deltaTime>> when the last operation was update(deltaTime)
  updates,       \* number of update calls so far
  args,          \* world point, camera position and zoom of a round trip
  screen,        \* <<result>> of worldToScreen, once called
  world,         \* <<result>> of screenToWorld, once called
  call,          \* the three arguments of a call of clamp or smoothStep
  result,        \* <<function name, returned value>>, once called
  tool,          \* the asset generator that runs: "manifest", "batch" or none
  files,         \* output paths that exist on disk
  phase,         \* per job: "waiting", "request" (API call in flight), "done"
  retries,       \* per job: recursive generateAsset calls made after an error
  requests,      \* API requests issued
  writes,        \* files written
  generatedCount, failedCount, skippedCount,
  summary,       \* <<the counts the generator printed>>, once it has finished
  paused,        \* Game.paused
  scheduled,     \* loop callbacks requestAnimationFrame holds for the next frame
  accumulator,   \* Game.accumulator, in thirds of a millisecond
  keys,          \* key codes InputManager.keys holds as pressed
  tickLog        \* calls made by the last loop callback, in order

camVars == <<config, target, currentX, currentY, currentZoom,
             targetX, targetY, targetZoom>>
envVars == <<bodies, lastUpdate, updates>>
tfVars == <<args, screen, world>>
utilVars == <<call, result>>
genVars == <<tool, files, phase, retries, requests, writes,
             generatedCount, failedCount, skippedCount, summary>>
gameVars == <<paused, scheduled, accumulator, keys, tickLog>>
vars == <<camVars, envVars, tfVars, utilVars, genVars, gameVars>>

\* lastUpdate when the last operation was not an update
NoUpdate == <<>>
\* a transform that has not been called yet
NotCalled == <<>>

----------------------------------------------------------------------------
(* Camera operations *)

\* constructor
NewCamera(cfg) ==
  /\ config = cfg
  /\ target = NoBody
  /\ currentX = Zero /\ currentY = Zero /\ currentZoom = One
  /\ targetX = Zero /\ targetY = Zero /\ targetZoom = One

NoTransform ==
  /\ args = NotCalled /\ screen = NotCalled /\ world = NotCalled

\* no call of clamp or smoothStep
NoCall ==
  /\ call = NotCalled /\ result = NotCalled

\* no asset generator runs
NoTool == "none"
NoGenerator ==
  /\ tool = NoTool
  /\ files = {}
  /\ phase = <<>>
  /\ retries = <<>>
  /\ requests = 0 /\ writes = 0
  /\ generatedCount = 0 /\ failedCount = 0 /\ skippedCount = 0
  /\ summary = NotCalled

\* a Game that was constructed and never started
NoGame ==
  /\ paused = TRUE
  /\ scheduled = 0
  /\ accumulator = 0
  /\ keys = {}
  /\ tickLog = <<>>

Init ==
  /\ \E cfg \in Configs : NewCamera(cfg)
  /\ bodies = [b \in Bodies |-> InitialBody]
  /\ lastUpdate = NoUpdate
  /\ updates = 0
  /\ NoTransform
  /\ NoCall
  /\ NoGenerator
  /\ NoGame

\* follow that ignores a call without a body
FollowBodyOnly(b) ==
  /\ b # NoBody
  /\ target' = b
  /\ lastUpdate' = NoUpdate
  /\ UNCHANGED <<config, currentX, currentY, currentZoom,
                 targetX, targetY, targetZoom, bodies, updates, tfVars, utilVars, genVars, gameVars>>

\* follow(target): a body, or none
Follow(b) ==
  /\ target' = b
  /\ lastUpdate' = NoUpdate
  /\ UNCHANGED <<config, currentX, currentY, currentZoom,
                 targetX, targetY, targetZoom, bodies, updates, tfVars, utilVars, genVars, gameVars>>

\* stopFollowing that is refused when nothing is followed
StopFollowingIfFollowing ==
  /\ target # NoBody
  /\ target' = NoBody
  /\ lastUpdate' = NoUpdate
  /\ UNCHANGED <<config, currentX, currentY, currentZoom,
                 targetX, targetY, targetZoom, bodies, updates, tfVars, utilVars, genVars, gameVars>>

StopFollowing ==
  /\ target' = NoBody
  /\ lastUpdate' = NoUpdate
  /\ UNCHANGED <<config, currentX, currentY, currentZoom,
                 targetX, targetY, targetZoom, bodies, updates, tfVars, utilVars, genVars, gameVars>>

\* setPosition that keeps following
SetPositionKeepTarget(x, y) ==
  /\ targetX' = x
  /\ targetY' = y
  /\ lastUpdate' = NoUpdate
  /\ UNCHANGED <<config, target, currentX, currentY, currentZoom, targetZoom,
                 bodies, updates, tfVars, utilVars, genVars, gameVars>>

SetPosition(x, y) ==
  /\ target' = NoBody
  /\ targetX' = x
  /\ targetY' = y
  /\ lastUpdate' = NoUpdate
  /\ UNCHANGED <<config, currentX, currentY, currentZoom, targetZoom,
                 bodies, updates, tfVars, utilVars, genVars, gameVars>>

\* setZoom without the upper bound
SetZoomNoMax(level) ==
  /\ lastUpdate' = NoUpdate
  /\ UNCHANGED <<config, target, currentX, currentY, currentZoom,
                 targetX, targetY, bodies, updates, tfVars, utilVars, genVars, gameVars>>
  /\ targetZoom' = Max(config.minZoom, level)

SetZoom(level) ==
  /\ lastUpdate' = NoUpdate
  /\ UNCHANGED <<config, target, currentX, currentY, currentZoom,
                 targetX, targetY, bodies, updates, tfVars, utilVars, genVars, gameVars>>
  /\ targetZoom' = Max(config.minZoom, Min(config.maxZoom, level))

\* the desired position without the velocity look-ahead
DesiredXNoLookAhead ==
  IF target # NoBody
  THEN Sub(bodies[target].position.x, Div(config.viewportWidth, Num(2)))
  ELSE targetX

\* update: the position the camera wants before clamping
DesiredX ==
  IF target # NoBody
  THEN Add(Sub(bodies[target].position.x, Div(config.viewportWidth, Num(2))),
           Mul(bodies[target].velocity.x, config.lookAhead))
  ELSE targetX
\* the desired position centring a manually set target as well
DesiredYCentred ==
  Sub(IF target # NoBody
      THEN Add(bodies[target].position.y,
               Mul(bodies[target].velocity.y, config.lookAhead))
      ELSE targetY,
      Div(config.viewportHeight, Num(2)))
DesiredY ==
  IF target # NoBody
  THEN Add(Sub(bodies[target].position.y, Div(config.viewportHeight, Num(2))),
           Mul(bodies[target].velocity.y, config.lookAhead))
  ELSE targetY

\* a clamp without the lower bound
ClampedXNoFloor(x) == Min(Sub(config.worldWidth, config.viewportWidth), x)

\* update: clamp to world bounds
ClampedX(x) == Max(Zero, Min(Sub(config.worldWidth, config.viewportWidth), x))
\* a clamp that applies the lower bound first
ClampedYMinFirst(y) == Min(Sub(config.worldHeight, config.viewportHeight), Max(Zero, y))
ClampedY(y) == Max(Zero, Min(Sub(config.worldHeight, config.viewportHeight), y))

\* a per-frame factor that ignores the elapsed time
SmoothFactorPerFrame(deltaTime) == config.followSpeed

\* update: smooth interpolation factor
SmoothFactor(deltaTime) == Mul(Mul(config.followSpeed, deltaTime), Num(60))

\* update(deltaTime), the camera's fields
UpdateCamera(deltaTime) ==
  /\ targetX' = ClampedX(DesiredX)
  /\ targetY' = ClampedY(DesiredY)
  /\ currentX' = Add(currentX, Mul(Sub(targetX', currentX), SmoothFactor(deltaTime)))
  /\ currentY' = Add(currentY, Mul(Sub(targetY', currentY), SmoothFactor(deltaTime)))
  /\ currentZoom' = Add(currentZoom,
                        Mul(Sub(targetZoom, currentZoom), SmoothFactor(deltaTime)))
  /\ lastUpdate' = <<deltaTime>>
  /\ UNCHANGED <<config, target, targetZoom>>

Update(deltaTime) ==
  /\ updates < MaxUpdates
  /\ updates' = updates + 1
  /\ UpdateCamera(deltaTime)
  /\ UNCHANGED <<bodies, tfVars, utilVars, genVars, gameVars>>

\* the physics engine moves a body
PhysicsStep(b, s) ==
  /\ bodies' = [bodies EXCEPT ![b] = s]
  /\ lastUpdate' = NoUpdate
  /\ UNCHANGED <<camVars, updates, tfVars, utilVars, genVars, gameVars>>

Next ==
  \/ \E b \in Bodies \cup {NoBody} : Follow(b)
  \/ StopFollowing
  \/ \E p \in ManualPositions : SetPosition(p.x, p.y)
  \/ \E level \in ZoomLevels : SetZoom(level)
  \/ \E dt \in DeltaTimes : Update(dt)
  \/ \E b \in Bodies, s \in BodyStates : PhysicsStep(b, s)

Spec == Init /\ [][Next]_vars

\* the same camera in a world shorter than the viewport
DegenerateInit ==
  /\ NewCamera(ShortWorldConfig)
  /\ bodies = [b \in Bodies |-> InitialBody]
  /\ lastUpdate = NoUpdate
  /\ updates = 0
  /\ NoTransform
  /\ NoCall
  /\ NoGenerator
  /\ NoGame

DegenerateSpec == DegenerateInit /\ [][Next]_vars

----------------------------------------------------------------------------
(* The free coordinate transforms, applied to drawn arguments *)

TransformInit ==
  /\ NewCamera(DefaultConfig)
  /\ bodies = [b \in Bodies |-> InitialBody]
  /\ lastUpdate = NoUpdate
  /\ updates = 0
  /\ args \in [point : Points, camera : CameraPositions, zoom : Zooms]
  /\ screen = NotCalled
  /\ world = NotCalled
  /\ NoCall
  /\ NoGenerator
  /\ NoGame

CallWorldToScreen ==
  /\ screen = NotCalled
  /\ screen' = <<worldToScreen(args.point.x, args.point.y,
                               args.camera.x, args.camera.y, args.zoom)>>
  /\ UNCHANGED <<camVars, envVars, args, world, utilVars, genVars, gameVars>>

CallScreenToWorld ==
  /\ screen # NotCalled
  /\ world = NotCalled
  /\ world' = <<screenToWorld(screen[1].x, screen[1].y,
                              args.camera.x, args.camera.y, args.zoom)>>
  /\ UNCHANGED <<camVars, envVars, args, screen, utilVars, genVars, gameVars>>

TransformNext == CallWorldToScreen \/ CallScreenToWorld

TransformSpec == TransformInit /\ [][TransformNext]_vars

\* C6: for every world point, camera position and non-zero zoom,
\* screenToWorld(worldToScreen(wx, wy)) returns (wx, wy).
C6_RoundTrip ==
  (world # NotCalled /\ args.zoom # Zero) => world[1] = args.point

\* a round trip has run with a scaling zoom and an offset camera
C6_Witness ==
  /\ world # NotCalled
  /\ args.zoom = CAMERA_MIN_ZOOM
  /\ args.camera.x # Zero
  /\ args.point.x = Num(810)

----------------------------------------------------------------------------
(* clamp and smoothStep, applied to drawn arguments *)

\* arguments of clamp and smoothStep
Values == { Num(-2), Zero, R(1, 4), R(1, 2), One, Num(3) }

UtilInit ==
  /\ NewCamera(DefaultConfig)
  /\ bodies = [b \in Bodies |-> InitialBody]
  /\ lastUpdate = NoUpdate
  /\ updates = 0
  /\ NoTransform
  /\ NoGenerator
  /\ NoGame
  /\ call \in Values \X Values \X Values
  /\ result = NotCalled

\* clamp(value, min, max) on the drawn arguments
CallClamp ==
  /\ result = NotCalled
  /\ result' = <<"clamp", clamp(call[1], call[2], call[3])>>
  /\ UNCHANGED <<camVars, envVars, tfVars, call, genVars, gameVars>>

\* smoothStep(edge0, edge1, x) on the drawn arguments
CallSmoothStep ==
  /\ result = NotCalled
  /\ result' = <<"smoothStep", smoothStep(call[1], call[2], call[3])>>
  /\ UNCHANGED <<camVars, envVars, tfVars, call, genVars, gameVars>>

UtilNext == CallClamp \/ CallSmoothStep

UtilSpec == UtilInit /\ [][UtilNext]_vars

Returned(fn) == result # NotCalled /\ result[1] = fn

\* C16: for edges e0 # e1, smoothStep(e0, e1, e0) = 0 and
\* smoothStep(e0, e1, e1) = 1.
C16_SmoothStepEdges ==
  (Returned("smoothStep") /\ call[1] # call[2]) =>
    /\ call[3] = call[1] => result[2] = Zero
    /\ call[3] = call[2] => result[2] = One

\* smoothStep has returned 1 at the second edge of a descending pair
C16_Witness ==
  /\ Returned("smoothStep")
  /\ Less(call[2], call[1])
  /\ call[3] = call[2]
  /\ result[2] = One

\* C17: for e0 < e1 and x1 <= x2 in [e0, e1],
\* smoothStep(e0, e1, x1) <= smoothStep(e0, e1, x2).
C17_SmoothStepMonotonic ==
  (Returned("smoothStep") /\ Less(call[1], call[2])
     /\ InRange(call[3], call[1], call[2])) =>
    \A x2 \in Values :
      (Leq(call[3], x2) /\ Leq(x2, call[2])) =>
        Leq(result[2], smoothStep(call[1], call[2], x2))

\* smoothStep(0, 1, 1/4) has returned 5/32, strictly between the edges
C17_Witness ==
  /\ call = <<Zero, One, R(1, 4)>>
  /\ result = <<"smoothStep", R(5, 32)>>

\* C18: clamp(value, min, max) with min <= max returns value inside
\* [min, max], min below it and max above it; with min > max it returns min.
C18_ClampTwoSided ==
  Returned("clamp") =>
    LET value == call[1]
        lo == call[2]
        hi == call[3]
    IN  /\ Leq(lo, hi) =>
             /\ InRange(result[2], lo, hi)
             /\ InRange(value, lo, hi) => result[2] = value
             /\ Less(value, lo) => result[2] = lo
             /\ Less(hi, value) => result[2] = hi
        /\ Less(hi, lo) => result[2] = lo

\* clamp has returned min for a value below an inverted range
C18_Witness ==
  /\ Returned("clamp")
  /\ Less(call[3], call[2])
  /\ Less(call[1], call[3])
  /\ result[2] = call[2]

----------------------------------------------------------------------------
(* The asset generators: AssetGenerator (scripts/assets/generate-assets.ts)  *)
(* FullBatchGenerator (tools/asset-generator/src/generators/full-batch.ts)   *)
(* and BatchAssetGenerator (tools/asset-generator/src/generators/batch.ts).  *)
(* A job is one call of generateAsset, or one task of generateFullAssetSet,  *)
(* from the generator's loop; the file system and the image API are the      *)
(* environment.                                                              *)

CONFIG_maxRetries == 3

RetryableErrors == {"RATE_LIMIT_EXCEEDED", "TEMPORARY_UNAVAILABLE", "TIMEOUT"}

\* an error message is modelled by the error code it contains
shouldRetry(error) == error \in RetryableErrors

\* what the image API answers: a response with image data, a response
\* without, or an error
Outcomes == {"image", "empty", "INVALID_ARGUMENT"} \cup RetryableErrors

\* number of retries of one asset explored
MaxRetriesExplored == 5

\* the calls processCategory makes for a manifest with two assets, the first
\* with one variant: a variant has the output path of its asset
ManifestJobs ==
  << [name |-> "tables/playfield", variant |-> "", output |-> "playfield.png"],
     [name |-> "tables/playfield", variant |-> "neon", output |-> "playfield.png"],
     [name |-> "entities/ball", variant |-> "", output |-> "ball.png"] >>

\* the filtered ALL_PROMPTS of a full batch run, and its batch size
BatchJobs ==
  << [id |-> "playfield_base", filename |-> "playfield_base.png"],
     [id |-> "playfield_classic", filename |-> "themes/classic/playfield.png"],
     [id |-> "glass_reflection", filename |-> "overlays/glass_reflection.png"] >>
BatchSize == 2

\* the first ten entries of the tasks array of generateFullAssetSet: the
\* value of the async method generateBackground, a Promise, then closures
ThemeTasks ==
  << [output |-> "backgrounds/playfield.png", callable |-> FALSE],
     [output |-> "sprites/ball_chrome.png", callable |-> TRUE],
     [output |-> "sprites/flipper_left.png", callable |-> TRUE],
     [output |-> "sprites/flipper_right.png", callable |-> TRUE],
     [output |-> "sprites/bumper_1.png", callable |-> TRUE],
     [output |-> "sprites/bumper_2.png", callable |-> TRUE],
     [output |-> "sprites/bumper_3.png", callable |-> TRUE],
     [output |-> "sprites/target_drop.png", callable |-> TRUE],
     [output |-> "sprites/target_standup.png", callable |-> TRUE],
     [output |-> "ui/btn_play_normal.png", callable |-> TRUE] >>
\* const batchSize = 5 of generateFullAssetSet
ThemeBatchSize == 5

Tools == {"manifest", "batch", "theme"}
JobsOf(g) ==
  IF g = "manifest" THEN ManifestJobs
  ELSE IF g = "batch" THEN BatchJobs
  ELSE ThemeTasks
OutputOf(g, i) ==
  IF g = "manifest" THEN ManifestJobs[i].output
  ELSE IF g = "batch" THEN BatchJobs[i].filename
  ELSE ThemeTasks[i].output
OutputsOf(g) == { OutputOf(g, i) : i \in DOMAIN JobsOf(g) }
\* outputPath of job i of the running generator
Output(i) == OutputOf(tool, i)
\* the batch of job i: Math.floor(i / batchSize) for the 0-based index
BatchOf(i) == (i - 1) \div BatchSize
\* tasks.slice(i, i + batchSize) of generateFullAssetSet
ThemeBatchOf(i) == (i - 1) \div ThemeBatchSize
\* the loop of the running generator is over
AllDone == \A i \in DOMAIN phase : phase[i] = "done"
\* the jobs whose API request is in flight
InFlight == { i \in DOMAIN phase : phase[i] = "request" }

GenInit ==
  /\ NewCamera(DefaultConfig)
  /\ bodies = [b \in Bodies |-> InitialBody]
  /\ lastUpdate = NoUpdate
  /\ updates = 0
  /\ NoTransform
  /\ NoCall
  /\ tool \in Tools
  /\ files \in IF tool = "theme" THEN {{}} ELSE SUBSET OutputsOf(tool)
  /\ phase = [i \in DOMAIN JobsOf(tool) |-> "waiting"]
  /\ retries = [i \in DOMAIN JobsOf(tool) |-> 0]
  /\ requests = 0 /\ writes = 0
  /\ generatedCount = 0 /\ failedCount = 0 /\ skippedCount = 0
  /\ summary = NotCalled
  /\ NoGame

\* generateAsset that never looks for the file
GenerateAssetCheckAlways(i) ==
  /\ tool = "manifest"
  /\ phase[i] = "waiting"
  /\ \A j \in 1..(i - 1) : phase[j] = "done"
  /\ phase' = [phase EXCEPT ![i] = "request"]
  /\ requests' = requests + 1
  /\ UNCHANGED <<skippedCount, tool, files, retries, writes, generatedCount, failedCount>>
  /\ UNCHANGED <<camVars, envVars, tfVars, utilVars, gameVars, summary>>

\* AssetGenerator.generateAsset up to the API call: skip an existing file,
\* otherwise issue the request.  The jobs run one after the other.
GenerateAssetCheck(i) ==
  /\ tool = "manifest"
  /\ phase[i] = "waiting"
  /\ \A j \in 1..(i - 1) : phase[j] = "done"
  /\ IF Output(i) \in files
     THEN /\ skippedCount' = skippedCount + 1
          /\ phase' = [phase EXCEPT ![i] = "done"]
          /\ UNCHANGED requests
     ELSE /\ phase' = [phase EXCEPT ![i] = "request"]
          /\ requests' = requests + 1
          /\ UNCHANGED skippedCount
  /\ UNCHANGED <<tool, files, retries, writes, generatedCount, failedCount>>
  /\ UNCHANGED <<camVars, envVars, tfVars, utilVars, gameVars, summary>>

\* AssetGenerator.generateAsset from the API's answer on: save the image, or
\* count the failure and call generateAsset again after a retryable error
GenerateAssetRespond(i, outcome) ==
  /\ tool = "manifest"
  /\ phase[i] = "request"
  /\ IF outcome = "image"
     THEN /\ files' = files \cup {Output(i)}
          /\ writes' = writes + 1
          /\ generatedCount' = generatedCount + 1
          /\ phase' = [phase EXCEPT ![i] = "done"]
          /\ UNCHANGED <<failedCount, retries>>
     ELSE /\ failedCount' = failedCount + 1
          /\ IF shouldRetry(outcome)
             THEN /\ retries[i] < MaxRetriesExplored
                  /\ retries' = [retries EXCEPT ![i] = @ + 1]
                  /\ phase' = [phase EXCEPT ![i] = "waiting"]
             ELSE /\ phase' = [phase EXCEPT ![i] = "done"]
                  /\ UNCHANGED retries
          /\ UNCHANGED <<files, writes, generatedCount>>
  /\ UNCHANGED <<tool, requests, skippedCount>>
  /\ UNCHANGED <<camVars, envVars, tfVars, utilVars, gameVars, summary>>

\* FullBatchGenerator.generateAsset up to the API call.  The jobs of a batch
\* run together; a batch starts when the batches before it are done.
FullBatchGenerateAssetCheck(i) ==
  /\ tool = "batch"
  /\ phase[i] = "waiting"
  /\ \A j \in DOMAIN phase : BatchOf(j) < BatchOf(i) => phase[j] = "done"
  /\ IF Output(i) \in files
     THEN /\ skippedCount' = skippedCount + 1
          /\ phase' = [phase EXCEPT ![i] = "done"]
          /\ UNCHANGED requests
     ELSE /\ phase' = [phase EXCEPT ![i] = "request"]
          /\ requests' = requests + 1
          /\ UNCHANGED skippedCount
  /\ UNCHANGED <<tool, files, retries, writes, generatedCount, failedCount>>
  /\ UNCHANGED <<camVars, envVars, tfVars, utilVars, gameVars, summary>>

\* generateAsset whose error ends the run: the waiting jobs are dropped
FullBatchGenerateAssetRespondAbort(i, outcome) ==
  /\ tool = "batch"
  /\ phase[i] = "request"
  /\ IF outcome = "image"
     THEN /\ files' = files \cup {Output(i)}
          /\ writes' = writes + 1
          /\ generatedCount' = generatedCount + 1
          /\ phase' = [phase EXCEPT ![i] = "done"]
          /\ UNCHANGED failedCount
     ELSE /\ failedCount' = failedCount + 1
          /\ phase' = [j \in DOMAIN phase |->
                        IF j = i \/ phase[j] = "waiting" THEN "done" ELSE phase[j]]
          /\ UNCHANGED <<files, writes, generatedCount>>
  /\ UNCHANGED <<tool, retries, requests, skippedCount>>
  /\ UNCHANGED <<camVars, envVars, tfVars, utilVars, gameVars, summary>>

\* FullBatchGenerator.generateAsset from the API's answer on:
\* GeminiAssetGenerator.generateImage writes the file or throws
FullBatchGenerateAssetRespond(i, outcome) ==
  /\ tool = "batch"
  /\ phase[i] = "request"
  /\ IF outcome = "image"
     THEN /\ files' = files \cup {Output(i)}
          /\ writes' = writes + 1
          /\ generatedCount' = generatedCount + 1
          /\ UNCHANGED failedCount
     ELSE /\ failedCount' = failedCount + 1
          /\ UNCHANGED <<files, writes, generatedCount>>
  /\ phase' = [phase EXCEPT ![i] = "done"]
  /\ UNCHANGED <<tool, retries, requests, skippedCount>>
  /\ UNCHANGED <<camVars, envVars, tfVars, utilVars, gameVars, summary>>

\* generateFullAssetSet that starts every task at once
ThemeTaskStartUngated(i) ==
  /\ tool = "theme"
  /\ phase[i] = "waiting"
  /\ IF ThemeTasks[i].callable
     THEN /\ phase' = [phase EXCEPT ![i] = "request"]
          /\ requests' = requests + 1
     ELSE /\ phase' = [phase EXCEPT ![i] = "done"]
          /\ UNCHANGED requests
  /\ UNCHANGED <<tool, files, retries, writes, generatedCount, failedCount, skippedCount>>
  /\ UNCHANGED <<camVars, envVars, tfVars, utilVars, gameVars, summary>>

\* one task of a batch of generateFullAssetSet up to the API call: fn() of
\* a closure issues the request of generateImage; fn() of the Promise throws
\* a TypeError, which the catch around it logs.  generatedCount stands for
\* the local variable completed.
ThemeTaskStart(i) ==
  /\ tool = "theme"
  /\ phase[i] = "waiting"
  /\ \A j \in DOMAIN phase : ThemeBatchOf(j) < ThemeBatchOf(i) => phase[j] = "done"
  /\ IF ThemeTasks[i].callable
     THEN /\ phase' = [phase EXCEPT ![i] = "request"]
          /\ requests' = requests + 1
     ELSE /\ phase' = [phase EXCEPT ![i] = "done"]
          /\ UNCHANGED requests
  /\ UNCHANGED <<tool, files, retries, writes, generatedCount, failedCount, skippedCount>>
  /\ UNCHANGED <<camVars, envVars, tfVars, utilVars, gameVars, summary>>

\* one task of generateFullAssetSet from the API's answer on: generateImage
\* writes the file and completed++ follows, or it throws and the catch logs
ThemeTaskRespond(i, outcome) ==
  /\ tool = "theme"
  /\ phase[i] = "request"
  /\ IF outcome = "image"
     THEN /\ files' = files \cup {Output(i)}
          /\ writes' = writes + 1
          /\ generatedCount' = generatedCount + 1
     ELSE UNCHANGED <<files, writes, generatedCount>>
  /\ phase' = [phase EXCEPT ![i] = "done"]
  /\ UNCHANGED <<tool, retries, requests, failedCount, skippedCount>>
  /\ UNCHANGED <<camVars, envVars, tfVars, utilVars, gameVars, summary>>

\* the end of AssetGenerator.generateAll: the four lines of the summary
GenerateAllSummary ==
  /\ tool = "manifest"
  /\ AllDone
  /\ summary = NotCalled
  /\ summary' = << [generated |-> generatedCount,
                    failed |-> failedCount,
                    skipped |-> skippedCount,
                    total |-> generatedCount + failedCount + skippedCount] >>
  /\ UNCHANGED <<tool, files, phase, retries, requests, writes,
                 generatedCount, failedCount, skippedCount>>
  /\ UNCHANGED <<camVars, envVars, tfVars, utilVars, gameVars>>

\* FullBatchGenerator.printSummary, called when the loop of generateAll is over
PrintSummary ==
  /\ tool = "batch"
  /\ AllDone
  /\ summary = NotCalled
  /\ summary' = << [completed |-> generatedCount,
                    total |-> Len(BatchJobs),
                    failed |-> failedCount,
                    skipped |-> skippedCount] >>
  /\ UNCHANGED <<tool, files, phase, retries, requests, writes,
                 generatedCount, failedCount, skippedCount>>
  /\ UNCHANGED <<camVars, envVars, tfVars, utilVars, gameVars>>

\* the last line of generateFullAssetSet: Generated completed/tasks.length
FullAssetSetSummary ==
  /\ tool = "theme"
  /\ AllDone
  /\ summary = NotCalled
  /\ summary' = << [completed |-> generatedCount, total |-> Len(ThemeTasks)] >>
  /\ UNCHANGED <<tool, files, phase, retries, requests, writes,
                 generatedCount, failedCount, skippedCount>>
  /\ UNCHANGED <<camVars, envVars, tfVars, utilVars, gameVars>>

GenNext ==
  \/ \E i \in DOMAIN phase : GenerateAssetCheck(i)
  \/ \E i \in DOMAIN phase, outcome \in Outcomes : GenerateAssetRespond(i, outcome)
  \/ \E i \in DOMAIN phase : FullBatchGenerateAssetCheck(i)
  \/ \E i \in DOMAIN phase, outcome \in Outcomes : FullBatchGenerateAssetRespond(i, outcome)
  \/ \E i \in DOMAIN phase : ThemeTaskStart(i)
  \/ \E i \in DOMAIN phase, outcome \in Outcomes : ThemeTaskRespond(i, outcome)
  \/ GenerateAllSummary
  \/ PrintSummary
  \/ FullAssetSetSummary

GenSpec == GenInit /\ [][GenNext]_vars

\* every pending await is resumed: the API answers each request and the
\* event loop runs each continuation
GenFairSpec == GenSpec /\ WF_vars(GenNext)

\* C19: when generateAsset finds its output file, it issues no API request,
\* writes no file, adds one to the skipped counter and to no other, and the
\* job is over, in AssetGenerator and in FullBatchGenerator.
C19_SkipExisting ==
  /\ [][\A i \in DOMAIN phase :
          ((GenerateAssetCheck(i) \/ FullBatchGenerateAssetCheck(i))
             /\ Output(i) \in files) =>
            /\ requests' = requests
            /\ writes' = writes
            /\ files' = files
            /\ skippedCount' = skippedCount + 1
            /\ generatedCount' = generatedCount
            /\ failedCount' = failedCount
            /\ phase'[i] = "done"]_vars
  /\ [][\A i \in DOMAIN phase : phase[i] = "done" => phase'[i] = "done"]_vars

\* AssetGenerator has skipped all three jobs: both files were there
C19_Witness ==
  /\ tool = "manifest"
  /\ skippedCount = 3
  /\ requests = 0 /\ writes = 0

\* FullBatchGenerator has skipped one file and generated the two others
C19_WitnessBatch ==
  /\ tool = "batch"
  /\ skippedCount = 1
  /\ generatedCount = 2
  /\ requests = 2

\* C20: generateAsset is called again for an asset at most maxRetries times.
C20_BoundedRetry ==
  \A i \in DOMAIN retries : retries[i] <= CONFIG_maxRetries

\* the run started with none of its output files and no API call failed
FreshAndSuccessful ==
  /\ writes = Cardinality(files)
  /\ writes + Cardinality(InFlight) = requests

\* C21: when no output file exists beforehand and every API call succeeds,
\* AssetGenerator issues one request for each asset and one more for each of
\* its variants.
C21_VariantsGenerated ==
  (tool = "manifest" /\ AllDone /\ FreshAndSuccessful) =>
    requests = Len(ManifestJobs)

\* C22: when every API call succeeds, generateFullAssetSet runs every task,
\* the background task writes backgrounds/playfield.png, and the run reports
\* completed equal to the number of tasks.
C22_FullThemeSet ==
  (tool = "theme" /\ summary # NotCalled /\ FreshAndSuccessful) =>
    /\ "backgrounds/playfield.png" \in files
    /\ summary[1].completed = summary[1].total

\* the tasks that fn() could not call
NotCallable == { i \in DOMAIN ThemeTasks : ~ThemeTasks[i].callable }

\* C27: in FullBatchGenerator.generateAll and in generateFullAssetSet at
\* most batchSize requests are in flight, and no task of a batch has started
\* before every task of the batches before it has settled.
C27_BoundedBatches ==
  /\ tool = "batch" =>
       /\ Cardinality(InFlight) <= BatchSize
       /\ \A i, j \in DOMAIN phase :
            (BatchOf(j) < BatchOf(i) /\ phase[i] # "waiting") => phase[j] = "done"
  /\ tool = "theme" =>
       /\ Cardinality(InFlight) <= ThemeBatchSize
       /\ \A i, j \in DOMAIN phase :
            (ThemeBatchOf(j) < ThemeBatchOf(i) /\ phase[i] # "waiting") =>
              phase[j] = "done"

\* the five tasks of the second batch of generateFullAssetSet are in flight
C27_Witness ==
  /\ tool = "theme"
  /\ Cardinality(InFlight) = ThemeBatchSize

\* the two jobs of the first batch of generateAll are in flight
C27_WitnessBatch ==
  /\ tool = "batch"
  /\ Cardinality(InFlight) = BatchSize

\* C28: in FullBatchGenerator.generateAll and in generateFullAssetSet a task
\* that fails changes no other task, every task is attempted, and the run
\* reaches its summary.
C28_FailureIsolation ==
  /\ [][\A i \in DOMAIN phase, outcome \in Outcomes \ {"image"} :
          (FullBatchGenerateAssetRespond(i, outcome) \/ ThemeTaskRespond(i, outcome)) =>
            /\ phase'[i] = "done"
            /\ \A j \in DOMAIN phase \ {i} : phase'[j] = phase[j]]_vars
  /\ []((tool = "batch" /\ summary # NotCalled) =>
          requests + skippedCount = Len(BatchJobs))
  /\ []((tool = "theme" /\ summary # NotCalled) =>
          requests + Cardinality(NotCallable) = Len(ThemeTasks))
  /\ (tool \in {"batch", "theme"}) => <>(summary # NotCalled)

\* generateAll has printed its summary after a failed and a generated job
C28_Witness ==
  /\ tool = "batch"
  /\ summary # NotCalled
  /\ failedCount > 0
  /\ generatedCount > 0

\* generateFullAssetSet has printed its summary after a failed request
C28_WitnessTheme ==
  /\ tool = "theme"
  /\ summary # NotCalled
  /\ writes < requests

\* C29: when AssetGenerator.generateAll prints its summary, every processed
\* entry is counted in exactly one of generatedCount, failedCount and
\* skippedCount, and Total is the number of entries.
C29_SummaryAccounting ==
  (tool = "manifest" /\ summary # NotCalled) =>
    /\ summary[1].generated + summary[1].failed + summary[1].skipped = Len(ManifestJobs)
    /\ summary[1].total = Len(ManifestJobs)

----------------------------------------------------------------------------
(* The camera's own coordinate conversions, called on a camera that has been *)
(* operated: here screen and world hold <<result, point converted>>.         *)

\* the value Camera.worldToScreen ignoring the zoom would return
CameraWorldToScreenUnscaled(worldX, worldY) ==
  [x |-> Sub(worldX, currentX),
   y |-> Sub(worldY, currentY)]

\* the value Camera.worldToScreen returns
CameraWorldToScreen(worldX, worldY) ==
  [x |-> Mul(Sub(worldX, currentX), currentZoom),
   y |-> Mul(Sub(worldY, currentY), currentZoom)]

\* the value Camera.screenToWorld returns
CameraScreenToWorld(screenX, screenY) ==
  IF currentZoom = Zero
  THEN [x |-> NonFinite, y |-> NonFinite]
  ELSE [x |-> Add(Div(screenX, currentZoom), currentX),
        y |-> Add(Div(screenY, currentZoom), currentY)]

\* the points converted
QueryPoints == { Vec(Num(810), Num(1440)), Vec(R(-7, 2), R(1, 3)) }

\* update calls made before the conversions
MaxViewUpdates == 1

\* a call of Camera.worldToScreen
CallCameraWorldToScreen(p) ==
  /\ screen = NotCalled
  /\ screen' = <<CameraWorldToScreen(p.x, p.y), p>>
  /\ UNCHANGED <<camVars, envVars, args, world, utilVars, genVars, gameVars>>

\* a call of a screenToWorld that centres the camera on the point
CallCameraScreenToWorldCentring(p) ==
  /\ world = NotCalled
  /\ world' = <<CameraScreenToWorld(p.x, p.y), p>>
  /\ currentX' = world'[1].x
  /\ currentY' = world'[1].y
  /\ UNCHANGED <<config, target, currentZoom, targetX, targetY, targetZoom>>
  /\ UNCHANGED <<envVars, args, screen, utilVars, genVars, gameVars>>

\* a call of Camera.screenToWorld
CallCameraScreenToWorld(p) ==
  /\ world = NotCalled
  /\ world' = <<CameraScreenToWorld(p.x, p.y), p>>
  /\ UNCHANGED <<camVars, envVars, args, screen, utilVars, genVars, gameVars>>

\* the camera is operated, then its conversions are called
ViewNext ==
  \/ /\ NoTransform
     /\ Next
     /\ updates' <= MaxViewUpdates
  \/ \E p \in QueryPoints : CallCameraWorldToScreen(p)
  \/ \E p \in QueryPoints : CallCameraScreenToWorld(p)

ViewSpec == Init /\ [][ViewNext]_vars

\* C25: follow, stopFollowing, setPosition, setZoom, worldToScreen and
\* screenToWorld leave currentPosition and currentZoom as they are.
C25_OnlyUpdateMoves ==
  [][(\/ \E b \in Bodies \cup {NoBody} : Follow(b)
      \/ StopFollowing
      \/ \E p \in ManualPositions : SetPosition(p.x, p.y)
      \/ \E level \in ZoomLevels : SetZoom(level)
      \/ \E p \in QueryPoints : CallCameraWorldToScreen(p)
      \/ \E p \in QueryPoints : CallCameraScreenToWorld(p))
       => UNCHANGED <<currentX, currentY, currentZoom>>]_vars

\* both conversions were called on a camera that an update had moved and an
\* operation after it had given a new target
C25_Witness ==
  /\ screen # NotCalled
  /\ world # NotCalled
  /\ updates = 1
  /\ lastUpdate = NoUpdate
  /\ currentX # Zero
  /\ targetX # currentX

\* C26: in every reachable camera state and for every point, the methods
\* Camera.worldToScreen and Camera.screenToWorld return what the free
\* functions return for the camera's current position and zoom.
C26_MethodsAgree ==
  /\ screen # NotCalled =>
       screen[1] = worldToScreen(screen[2].x, screen[2].y,
                                 currentX, currentY, currentZoom)
  /\ world # NotCalled =>
       world[1] = screenToWorld(world[2].x, world[2].y,
                                currentX, currentY, currentZoom)

\* both conversions were called on a camera moved off the origin at a zoom
\* other than 1
C26_Witness ==
  /\ screen # NotCalled
  /\ world # NotCalled
  /\ currentX # Zero
  /\ currentZoom # One
  /\ currentZoom # Zero

\* both conversions were called at zoom 0
C26_WitnessZeroZoom ==
  /\ screen # NotCalled
  /\ world # NotCalled
  /\ currentZoom = Zero

----------------------------------------------------------------------------
(* core/Game.ts and core/InputManager.ts (docs/plan.md, sections 2.4 and     *)
(* 2.5).  A listener, a public method and a loop callback each run to their  *)
(* end before the next one starts.  Times are in thirds of a millisecond,    *)
(* so that PHYSICS.STEP = 1000 / 120 ms is the integer 25.                   *)

PHYSICS_STEP == 25
PHYSICS_MAX_SUBSTEPS == 4

\* the key codes pressed, and InputManager.bindings on them
KeyCodes == {"KeyP", "Escape", "Space"}
bindings == [code \in KeyCodes |-> IF code = "Space" THEN "launch" ELSE "pause"]
PauseKeys == { code \in KeyCodes : bindings[code] = "pause" }

\* currentTime - lastTime of a loop callback: a second callback of the same
\* frame, a frame of 1/60 s, a frame of 100 ms
FrameDeltas == {0, 50, 300}

\* loop callbacks that may be pending at once
MaxScheduled == 3

GameInit ==
  /\ NewCamera(DefaultConfig)
  /\ bodies = [b \in Bodies |-> InitialBody]
  /\ lastUpdate = NoUpdate
  /\ updates = 0
  /\ NoTransform
  /\ NoCall
  /\ NoGenerator
  /\ NoGame

\* requestAnimationFrame((t) => this.loop(t))
RequestAnimationFrame ==
  /\ scheduled < MaxScheduled
  /\ scheduled' = scheduled + 1

\* Game.start
Start ==
  /\ paused' = FALSE
  /\ RequestAnimationFrame
  /\ UNCHANGED <<accumulator, keys, tickLog>>
  /\ UNCHANGED <<camVars, envVars, tfVars, utilVars, genVars>>

\* Game.stop
Stop ==
  /\ paused' = TRUE
  /\ UNCHANGED <<scheduled, accumulator, keys, tickLog>>
  /\ UNCHANGED <<camVars, envVars, tfVars, utilVars, genVars>>

\* the body of Game.togglePause
TogglePauseBody ==
  /\ paused' = ~paused
  /\ IF ~paused' THEN RequestAnimationFrame ELSE UNCHANGED scheduled

\* Game.togglePause
TogglePause ==
  /\ TogglePauseBody
  /\ UNCHANGED <<accumulator, keys, tickLog>>
  /\ UNCHANGED <<camVars, envVars, tfVars, utilVars, genVars>>

\* InputManager.notify: every listener of the action is called, whatever
\* pressed is.  The pause listener toggles; the launch listener calls
\* launchBall, which is empty.
notify(action, pressed) ==
  IF action = "pause" THEN TogglePauseBody ELSE UNCHANGED <<paused, scheduled>>

\* the keydown listener; a key held down repeats it
KeyDown(code) ==
  /\ keys' = keys \cup {code}
  /\ notify(bindings[code], TRUE)
  /\ UNCHANGED <<accumulator, tickLog>>
  /\ UNCHANGED <<camVars, envVars, tfVars, utilVars, genVars>>

\* the keyup listener
KeyUp(code) ==
  /\ code \in keys
  /\ keys' = keys \ {code}
  /\ notify(bindings[code], FALSE)
  /\ UNCHANGED <<accumulator, tickLog>>
  /\ UNCHANGED <<camVars, envVars, tfVars, utilVars, genVars>>

\* the number of turns of the while loop of Game.update
RECURSIVE StepsRun(_, _)
StepsRun(acc, steps) ==
  IF acc >= PHYSICS_STEP /\ steps < PHYSICS_MAX_SUBSTEPS
  THEN StepsRun(acc - PHYSICS_STEP, steps + 1)
  ELSE steps

PhysicsCalls(steps) == [k \in 1..steps |-> "physics.step"]

\* Game.update that updates the camera before the physics steps
GameUpdateCameraFirst(deltaMs) ==
  LET acc == accumulator + deltaMs
      steps == StepsRun(acc, 0)
  IN  /\ accumulator' = acc - steps * PHYSICS_STEP
      /\ tickLog' = <<"camera.update">> \o PhysicsCalls(steps)
      /\ UpdateCamera(R(deltaMs, 3000))
      /\ updates' = updates + 1

\* Game.update: the physics steps the accumulator pays for, then
\* camera.update(deltaMs / 1000).  The physics world holds no body that
\* moves: launchBall is still to be written.
GameUpdate(deltaMs) ==
  LET acc == accumulator + deltaMs
      steps == StepsRun(acc, 0)
  IN  /\ accumulator' = acc - steps * PHYSICS_STEP
      /\ tickLog' = PhysicsCalls(steps) \o <<"camera.update">>
      /\ UpdateCamera(R(deltaMs, 3000))
      /\ updates' = updates + 1

\* a callback of requestAnimationFrame runs Game.loop
LoopCallback(deltaMs) ==
  /\ scheduled > 0
  /\ IF paused
     THEN /\ scheduled' = scheduled - 1
          /\ tickLog' = <<>>
          /\ UNCHANGED <<accumulator, camVars, lastUpdate, updates>>
     ELSE /\ updates < MaxUpdates
          /\ GameUpdate(deltaMs)
          /\ UNCHANGED scheduled
  /\ UNCHANGED <<paused, keys>>
  /\ UNCHANGED <<bodies, tfVars, utilVars, genVars>>

GameNext ==
  \/ Start
  \/ Stop
  \/ TogglePause
  \/ \E code \in KeyCodes : KeyDown(code)
  \/ \E code \in KeyCodes : KeyUp(code)
  \/ \E deltaMs \in FrameDeltas : LoopCallback(deltaMs)

GameSpec == GameInit /\ [][GameNext]_vars

\* C23: with the loop running, a press and release of a pause key leaves the
\* game paused until a pause key is pressed again: the press pauses, a paused
\* game is resumed only by the press of a pause key or by a call of start or
\* togglePause, and a loop callback of a paused game makes no physics step
\* and no camera update.
C23_PauseControl ==
  /\ [][\A code \in PauseKeys : (KeyDown(code) /\ ~paused) => paused']_vars
  /\ [][(paused /\ ~paused') =>
          (Start \/ TogglePause \/ \E code \in PauseKeys : KeyDown(code))]_vars
  /\ [][\A deltaMs \in FrameDeltas : (LoopCallback(deltaMs) /\ paused) =>
          (tickLog' = <<>> /\ UNCHANGED <<camVars, accumulator>>)]_vars

\* C24: a tick of Game.update makes its physics steps, at most MAX_SUBSTEPS,
\* and then exactly one call of Camera.update, the last call of the tick.
C24_TickOrdering ==
  tickLog # <<>> =>
    /\ tickLog[Len(tickLog)] = "camera.update"
    /\ \A k \in 1..(Len(tickLog) - 1) : tickLog[k] = "physics.step"
    /\ Len(tickLog) - 1 <= PHYSICS_MAX_SUBSTEPS

\* a tick has made two physics steps and then updated the camera by 1/60 s
C24_Witness ==
  /\ tickLog = <<"physics.step", "physics.step", "camera.update">>
  /\ lastUpdate = <<R(1, 60)>>

\* C30: at most one loop callback is scheduled at any time.
C30_SingleLoop ==
  scheduled <= 1

----------------------------------------------------------------------------
(* A camera at followSpeed 1 that is set up, then updated on every frame *)

ConvergeInit ==
  /\ NewCamera(SnapConfig)
  /\ bodies = [b \in Bodies |-> InitialBody]
  /\ lastUpdate = NoUpdate
  /\ updates = 0
  /\ NoTransform
  /\ NoCall
  /\ NoGenerator
  /\ NoGame

\* the calls made before the render loop runs
Setup ==
  /\ updates = 0
  /\ \/ \E b \in Bodies : Follow(b)
     \/ \E p \in ManualPositions : SetPosition(p.x, p.y)
     \/ \E level \in ZoomLevels : SetZoom(level)
     \/ \E b \in Bodies, s \in BodyStates : PhysicsStep(b, s)

\* one frame of the render loop; the counter of updates saturates
Frame(deltaTime) ==
  /\ UpdateCamera(deltaTime)
  /\ updates' = IF updates < MaxUpdates THEN updates + 1 ELSE updates
  /\ UNCHANGED <<bodies, tfVars, utilVars, genVars, gameVars>>

AnyFrame == \E dt \in FrameTimes : Frame(dt)

ConvergeNext == Setup \/ AnyFrame

\* the loop reschedules itself on every animation frame
ConvergeSpec == ConvergeInit /\ [][ConvergeNext]_vars /\ WF_vars(AnyFrame)

Epsilon == R(1, 1000)
Near(a, b) == Leq(Abs(Sub(a, b)), Epsilon)

\* each of x, y and zoom is within Epsilon of its target
NearTarget ==
  /\ Near(currentX, targetX)
  /\ Near(currentY, targetY)
  /\ Near(currentZoom, targetZoom)

\* C3: with the target fixed and update called on every frame with
\* deltaTime > 0, the camera eventually gets and stays within 1/1000 of
\* targetPosition and targetZoom.
C3_Converges == <>[]NearTarget

----------------------------------------------------------------------------
(* Properties of the camera *)

MaxX == Sub(config.worldWidth, config.viewportWidth)
MaxY == Sub(config.worldHeight, config.viewportHeight)

WorldCoversViewport ==
  Leq(config.viewportWidth, config.worldWidth)
    /\ Leq(config.viewportHeight, config.worldHeight)

\* C1: with worldSize >= viewportSize, after update each coordinate of
\* currentPosition lies in [0, worldSize - viewportSize] on its axis.
C1_ClampInvariant ==
  (WorldCoversViewport /\ lastUpdate # NoUpdate) =>
    /\ InRange(currentX, Zero, MaxX)
    /\ InRange(currentY, Zero, MaxY)

\* one axis moves toward t without passing it or moving away
NoOvershoot(c, cNext, t) ==
  /\ Leq(Abs(Sub(cNext, t)), Abs(Sub(c, t)))
  /\ Times(Sign(Sub(cNext, t)), Sign(Sub(c, t))) >= 0

\* C2: an update with deltaTime > 0 toward an unmoved target does not
\* increase |current - target| on any axis (x, y, zoom) and never carries
\* current to the other side of the target.
C2_NoOvershoot ==
  [][\A dt \in DeltaTimes :
       (Less(Zero, dt) /\ Update(dt) /\ targetX' = targetX /\ targetY' = targetY) =>
         /\ NoOvershoot(currentX, currentX', targetX)
         /\ NoOvershoot(currentY, currentY', targetY)
         /\ NoOvershoot(currentZoom, currentZoom', targetZoom)]_vars

\* C4: setZoom(level) is always accepted and leaves targetZoom at level
\* clamped into [minZoom, maxZoom]: minZoom below the range, maxZoom above
\* it, level itself inside.
C4_SetZoomClamps ==
  /\ [](\A level \in ZoomLevels : ENABLED SetZoom(level))
  /\ [][\A level \in ZoomLevels :
          SetZoom(level) =>
            /\ InRange(targetZoom', config.minZoom, config.maxZoom)
            /\ Less(level, config.minZoom) => targetZoom' = config.minZoom
            /\ Less(config.maxZoom, level) => targetZoom' = config.maxZoom
            /\ InRange(level, config.minZoom, config.maxZoom) => targetZoom' = level]_vars

\* a level above the range has been clamped to maxZoom
C4_Witness ==
  /\ lastUpdate = NoUpdate
  /\ targetZoom = config.maxZoom

\* C5: given minZoom > 0, currentZoom is positive (never zero) in every
\* reachable state.
C5_ZoomPositive ==
  Less(Zero, config.minZoom) => Less(Zero, currentZoom)

\* C7: update(0) leaves currentPosition and currentZoom unchanged.
C7_ZeroTimeKeepsView ==
  [][Update(Zero) =>
       /\ currentX' = currentX
       /\ currentY' = currentY
       /\ currentZoom' = currentZoom]_vars

\* update(0) has run while following, away from the target
C7_Witness ==
  /\ lastUpdate = <<Zero>>
  /\ target # NoBody
  /\ currentX # targetX
  /\ currentZoom # targetZoom

\* C8 as stated: update(0) leaves every field of the camera unchanged.
C8_ZeroTimeKeepsState ==
  [][Update(Zero) => UNCHANGED camVars]_vars

\* C8, amended: update(0) leaves currentPosition, currentZoom, targetZoom and
\* the followed body unchanged; targetPosition is unchanged when the camera
\* follows nothing and targetPosition is inside the world bounds.
C8_ZeroTimeKeepsStateAmended ==
  [][Update(Zero) =>
       /\ UNCHANGED <<config, target, currentX, currentY, currentZoom, targetZoom>>
       /\ (target = NoBody /\ InRange(targetX, Zero, MaxX)
                           /\ InRange(targetY, Zero, MaxY)) =>
            (targetX' = targetX /\ targetY' = targetY)]_vars

\* update(0) has run on a manually positioned camera whose target is in bounds
C8_Witness ==
  /\ lastUpdate = <<Zero>>
  /\ target = NoBody
  /\ targetX = Num(540) /\ targetY = Num(960)

\* C9: update(deltaTime) moves each of x, y and zoom by lerp with
\* smoothFactor = clamp(followSpeed * deltaTime * 60, 0, 1); from (0,0)
\* toward (540,960) at followSpeed 0.08 and deltaTime 1/60 it reaches
\* (43.2, 76.8), and a factor of 1 or more lands exactly on the target.
C9_SmoothingStep ==
  [][\A dt \in DeltaTimes :
       Update(dt) =>
         LET f == clamp(Mul(Mul(config.followSpeed, dt), Num(60)), Zero, One)
         IN  /\ currentX' = lerp(currentX, targetX', f)
             /\ currentY' = lerp(currentY, targetY', f)
             /\ currentZoom' = lerp(currentZoom, targetZoom', f)
             /\ (config.followSpeed = R(8, 100) /\ dt = R(1, 60)
                   /\ currentX = Zero /\ currentY = Zero
                   /\ targetX' = Num(540) /\ targetY' = Num(960)) =>
                  (currentX' = R(432, 10) /\ currentY' = R(768, 10))
             /\ Leq(One, Mul(Mul(config.followSpeed, dt), Num(60))) =>
                  /\ currentX' = targetX'
                  /\ currentY' = targetY'
                  /\ currentZoom' = targetZoom']_vars

\* C10: while following, update sets targetPosition to
\* entityPosition - viewportSize/2 + entityVelocity * lookAheadFactor, clamped
\* to [0, worldSize - viewportSize]; the ball at (810,1440) moving at (100,0)
\* gives (590, 960).
C10_FollowTarget ==
  /\ [][\A dt \in DeltaTimes :
          (Update(dt) /\ target # NoBody) =>
            LET e == bodies[target]
                half == R(1, 2)
            IN  /\ targetX' = clamp(Add(Sub(e.position.x, Mul(config.viewportWidth, half)),
                                        Mul(e.velocity.x, config.lookAhead)),
                                    Zero, MaxX)
                /\ targetY' = clamp(Add(Sub(e.position.y, Mul(config.viewportHeight, half)),
                                        Mul(e.velocity.y, config.lookAhead)),
                                    Zero, MaxY)]_vars
  /\ []((/\ lastUpdate # NoUpdate
         /\ target # NoBody
         /\ config = DefaultConfig
         /\ bodies[target] = [position |-> Vec(Num(810), Num(1440)),
                              velocity |-> Vec(Num(100), Zero)])
          => (targetX = Num(590) /\ targetY = Num(960)))

\* update has run while following the moving ball
C10_Witness ==
  /\ lastUpdate # NoUpdate
  /\ target # NoBody
  /\ bodies[target].velocity.x = Num(100)
  /\ targetX = Num(590)

\* C11: setPosition(x, y) sets targetPosition to (x, y) and clears the
\* followed body; while nothing is followed, update computes targetPosition
\* from the camera's own targetPosition, whatever the bodies do, and only
\* follow makes the camera follow again.
C11_SetPositionPins ==
  /\ [][\A p \in ManualPositions :
          SetPosition(p.x, p.y) =>
            (target' = NoBody /\ targetX' = p.x /\ targetY' = p.y)]_vars
  /\ [][\A dt \in DeltaTimes :
          (Update(dt) /\ target = NoBody) =>
            /\ target' = NoBody
            /\ targetX' = clamp(targetX, Zero, MaxX)
            /\ targetY' = clamp(targetY, Zero, MaxY)]_vars
  /\ [][(target = NoBody /\ target' # NoBody) => \E b \in Bodies : Follow(b)]_vars

\* the camera followed the ball for one frame, was pinned to (540,960), and
\* update(0) has run after the ball moved away
C11_Witness ==
  /\ lastUpdate = <<Zero>>
  /\ target = NoBody
  /\ currentX = R(236, 5)
  /\ targetX = Num(540) /\ targetY = Num(960)
  /\ bodies["ball"] # InitialBody

\* C12 as stated: while nothing is followed, every update leaves
\* targetPosition and targetZoom as they were.
C12_TargetsHeld ==
  [][\A dt \in DeltaTimes :
       (Update(dt) /\ target = NoBody) =>
         (targetX' = targetX /\ targetY' = targetY /\ targetZoom' = targetZoom)]_vars

\* C12, amended: while nothing is followed, every update leaves targetZoom
\* as it was and targetPosition at its value clamped to the world bounds: an
\* in-bounds targetPosition is held, an out-of-bounds one is clamped.
C12_TargetsHeldAmended ==
  [][\A dt \in DeltaTimes :
       (Update(dt) /\ target = NoBody) =>
         /\ targetZoom' = targetZoom
         /\ targetX' = clamp(targetX, Zero, MaxX)
         /\ targetY' = clamp(targetY, Zero, MaxY)
         /\ InRange(targetX, Zero, MaxX) => targetX' = targetX
         /\ InRange(targetY, Zero, MaxY) => targetY' = targetY]_vars

\* after stopFollowing a second update has held the target computed from the
\* ball and a zoom set explicitly
C12_Witness ==
  /\ lastUpdate # NoUpdate
  /\ updates = 2
  /\ target = NoBody
  /\ targetX = Num(590) /\ targetY = Num(960)
  /\ targetZoom = config.minZoom

\* C13: follow(none) and stopFollowing are the same transition: from every
\* state each leads to the state the other leads to.
C13_FollowNoneIsStop ==
  [][Follow(NoBody) <=> StopFollowing]_vars

\* the camera was following and has been detached
C13_Witness ==
  /\ lastUpdate = NoUpdate
  /\ target = NoBody
  /\ targetX = Num(590)
  /\ updates = 1

\* the target position update computes from a body alone
FollowTarget(e) ==
  [x |-> clamp(Add(Sub(e.position.x, Div(config.viewportWidth, Num(2))),
                   Mul(e.velocity.x, config.lookAhead)), Zero, MaxX),
   y |-> clamp(Add(Sub(e.position.y, Div(config.viewportHeight, Num(2))),
                   Mul(e.velocity.y, config.lookAhead)), Zero, MaxY)]

\* C14: follow(e), stopFollowing and setPosition are accepted in every state,
\* and an update while following e sets targetPosition from e's position and
\* velocity alone, whatever targetPosition was set to before.
C14_ModeChanges ==
  /\ [](/\ \A b \in Bodies : ENABLED Follow(b)
        /\ ENABLED StopFollowing
        /\ \A p \in ManualPositions : ENABLED SetPosition(p.x, p.y))
  /\ [][\A dt \in DeltaTimes :
          (Update(dt) /\ target # NoBody) =>
            /\ targetX' = FollowTarget(bodies[target]).x
            /\ targetY' = FollowTarget(bodies[target]).y]_vars

\* the camera moved one frame toward the manual target (540,960), then
\* follow(ball) and update(0) replaced the target by the ball's
C14_Witness ==
  /\ lastUpdate = <<Zero>>
  /\ target # NoBody
  /\ currentX = R(216, 5) /\ currentY = R(384, 5)
  /\ targetX = Num(590) /\ targetY = Num(960)

\* an axis on which the world is smaller than the viewport
DegenerateX == Less(config.worldWidth, config.viewportWidth)
DegenerateY == Less(config.worldHeight, config.viewportHeight)

\* C15: when worldSize < viewportSize on an axis, update completes with
\* finite numbers and leaves targetPosition on that axis at 0, for a followed
\* body and for a manually set position alike.
C15_DegenerateBounds ==
  lastUpdate # NoUpdate =>
    /\ targetX[2] > 0 /\ targetY[2] > 0 /\ currentX[2] > 0 /\ currentY[2] > 0
    /\ DegenerateX => targetX = Zero
    /\ DegenerateY => targetY = Zero

\* update has run in the short world while following the ball
C15_Witness ==
  /\ lastUpdate # NoUpdate
  /\ DegenerateY
  /\ target # NoBody
  /\ targetX = Num(590)
  /\ targetY = Zero

\* update has run in the short world on a manually set position
C15_WitnessManual ==
  /\ lastUpdate # NoUpdate
  /\ DegenerateY
  /\ target = NoBody
  /\ targetX = Num(540)
  /\ targetY = Zero

====
